---------------------------- MODULE Spec2Model ----------------------------
(***************************************************************************)
(* Model of the media proxy of downloader-pro: the four revisions of the   *)
(* /api/proxy GET handler (src/app/api/proxy/route.ts and the three older  *)
(* revisions part_000, part_001, part_002), their extraction helpers, and  *)
(* the on-disk cache under public/downloads.                               *)
(*                                                                         *)
(* One deployment runs one revision of the handler (variable handler).     *)
(* A request is a process: its steps are the pieces of the async handler   *)
(* between two awaits, which run atomically on the event loop.  Every      *)
(* upstream answer (page, metadata, media bytes, file system) is chosen    *)
(* nondeterministically at the step that awaits it.                        *)
(***************************************************************************)
EXTENDS Naturals, Integers, Sequences, FiniteSets, TLC

VARIABLES
    handler,    \* the deployed revision of the GET handler
    files,      \* public/downloads: file name -> [bytes, src]
    pc,         \* per request: where the handler is
    rq,         \* per request: the query parameters
    loc,        \* per request: the handler's local variables
    resp,       \* per request: the response returned
    net,        \* per request: log of the fetches it issued and the failures it met
    prior,      \* per request: the requests already answered when it started
    live,       \* per request: the media stream and write stream it created
    igPage,     \* extraction harness: the Instagram page under test
    igType,     \* extraction harness: the type argument
    igOut,      \* extraction harness: result of extractInstagramMediaUrl
    ytFormats,  \* selection harness: info.formats
    ytQuality,  \* selection harness: the quality parameter
    ytOut,      \* selection harness: outcome of the format selection
    dcUrl,      \* classifier harness: the url given to downloadContent
    dcOut,      \* classifier harness: what downloadContent returned
    fbPage,     \* facebook harness: the page under test
    fbOut       \* facebook harness: the video URL resolved from it

vars == <<handler, files, pc, rq, loc, resp, net, prior, live, igPage, igType, igOut,
          ytFormats, ytQuality, ytOut, dcUrl, dcOut, fbPage, fbOut>>
hvars == <<handler, files, pc, rq, loc, resp, net, prior, live>>
igvars == <<igPage, igType, igOut>>
ytvars == <<ytFormats, ytQuality, ytOut>>
dcvars == <<dcUrl, dcOut>>
fbvars == <<fbPage, fbOut>>
\* the variables of the harnesses, which no request touches
fvars == <<igvars, ytvars, dcvars, fbvars>>

(***************************************************************************)
(* Bounds                                                                  *)
(***************************************************************************)
MaxReq == 2
\* the longest list of formats given to the format selection on its own
MaxFormats == 3
\* the longest video id captured from a url given to downloadContent
MaxIdLen == 12
\* the most markers in a facebook page given to the extraction on its own
MaxMarkers == 3

Reqs == 1..MaxReq

(***************************************************************************)
(* JavaScript values                                                       *)
(***************************************************************************)
NULL == "null"
UNDEFINED == "undefined"
\* !x for the string-or-null values the handlers test
Falsy(x) == x \in {NULL, UNDEFINED, ""}

Handlers == {"route", "part_000", "part_001", "part_002"}

(***************************************************************************)
(* URLs.  The handlers only look at a URL through a few predicates, so a   *)
(* URL is a name plus the predicates that hold of it.                      *)
(***************************************************************************)
YT_OK == "https://www.youtube.com/watch?v=dQw4w9WgXcQ"
YT_BAD == "https://www.youtube.com/watch?v=short"
IG_URL == "https://www.instagram.com/p/Cabc/"
FB_URL == "https://www.facebook.com/watch?v=123"

MEDIA_MP4 == "https://cdn.example/v/clip.mp4"
MEDIA_JPG == "https://cdn.example/i/photo.jpg"
MEDIA_VIDEO_PATH == "https://cdn.example/video/clip"

\* createUrlHash: md5 hex digest of the url (collisions are out of scope)
createUrlHash(url) == "md5(" \o url \o ")"

\* ytdl.validateURL (library): accepts a URL that carries an 11-character id
ytdlValidateURL(url) == url = YT_OK

\* extractYouTubeVideoId: the capture group when it has 11 characters
extractYouTubeVideoId(url) == IF url = YT_OK THEN "dQw4w9WgXcQ" ELSE NULL

(***************************************************************************)
(* Instagram pages.  A fetched page is described by what the extraction    *)
(* code can see in it:                                                     *)
(*   fetch  - "throw": fetch rejects; "notok": response.ok is false        *)
(*   shared - the window._sharedData script block: absent ("none"),        *)
(*            present with a payload JSON.parse rejects ("bad"), or "ok"   *)
(*   post   - entry_data.PostPage[0].graphql.shortcode_media of it:        *)
(*            absent, an image/video with or without its URL field, or     *)
(*            present with is_video neither true nor false ("other")       *)
(*   prof   - entry_data.ProfilePage[0].graphql.user of it                 *)
(*   ld     - the application/ld+json script block                         *)
(*   ogImage, ogVideo - og:image / og:video meta tags                      *)
(***************************************************************************)
IG_DISPLAY_URL == "https://ig.cdn/display_url.jpg"
IG_VIDEO_URL == "https://ig.cdn/video_url.mp4"
IG_PIC_HD == "https://ig.cdn/profile_pic_url_hd.jpg"
IG_PIC == "https://ig.cdn/profile_pic_url.jpg"
LD_VIDEO == "https://ig.cdn/video/ld_contentUrl"
LD_IMAGE == "https://ig.cdn/ld_image.jpg"
OG_IMAGE == "https://ig.cdn/og_image.jpg"
OG_VIDEO == "https://ig.cdn/og_video.mp4"

IgTypes == {"reel", "post", "profile"}
IgPostKinds == {"none", "img", "vid", "img_nourl", "vid_nourl", "other"}
IgProfKinds == {"none", "hd", "std", "nourl"}
IgLdKinds == {"none", "bad", "video", "video_nourl", "image", "imageArr",
              "imageArr_empty", "other"}

IgPage(f, s, po, pr, l, oi, ov) ==
    [fetch |-> f, shared |-> s, post |-> po, prof |-> pr, ld |-> l,
     ogImage |-> oi, ogVideo |-> ov]

IgFailedFetches ==
    {IgPage(f, "none", "none", "none", "none", FALSE, FALSE) : f \in {"throw", "notok"}}

IgPages ==
    IgFailedFetches \cup
    {IgPage("ok", s, "none", "none", l, oi, ov) :
        s \in {"none", "bad"}, l \in IgLdKinds, oi \in BOOLEAN, ov \in BOOLEAN} \cup
    {IgPage("ok", "ok", po, pr, l, oi, ov) :
        po \in IgPostKinds, pr \in IgProfKinds, l \in IgLdKinds,
        oi \in BOOLEAN, ov \in BOOLEAN}

\* outcome of one extraction step: it returned val, it threw, or it fell through
StepReturn(v) == [kind |-> "return", val |-> v]
StepThrow == [kind |-> "throw", val |-> NULL]
StepNext == [kind |-> "next", val |-> NULL]

\* the window._sharedData step
IgSharedDataStep(page, type) ==
    IF page.shared = "none" THEN StepNext
    ELSE IF page.shared = "bad" THEN StepThrow
    ELSE IF type = "post" /\ page.post \in {"img", "img_nourl"}
        THEN StepReturn(IF page.post = "img" THEN IG_DISPLAY_URL ELSE UNDEFINED)
    ELSE IF type \in {"reel", "post"} /\ page.post \in {"vid", "vid_nourl"}
        THEN StepReturn(IF page.post = "vid" THEN IG_VIDEO_URL ELSE UNDEFINED)
    ELSE IF type = "profile" /\ page.prof # "none"
        THEN StepReturn(CASE page.prof = "hd" -> IG_PIC_HD
                          [] page.prof = "std" -> IG_PIC
                          [] OTHER -> UNDEFINED)
    ELSE StepNext

\* the JSON-LD step; its own try/catch turns a throw into a fall-through
IgJsonLdStep(page) ==
    CASE page.ld = "video" -> StepReturn(LD_VIDEO)
      [] page.ld = "video_nourl" -> StepReturn(UNDEFINED)
      [] page.ld \in {"image", "imageArr"} -> StepReturn(LD_IMAGE)
      [] OTHER -> StepNext

\* extractInstagramMediaUrl of route.ts and part_000: [url, steps] where steps
\* lists the extraction steps that were run
extractInstagramMediaUrl_ld(page, type) ==
    IF page.fetch # "ok" THEN [url |-> NULL, steps |-> <<>>]
    ELSE LET s1 == IgSharedDataStep(page, type)
             s2 == IgJsonLdStep(page)
         IN  CASE s1.kind = "return" -> [url |-> s1.val, steps |-> <<"sharedData">>]
               [] s1.kind = "throw" -> [url |-> NULL, steps |-> <<"sharedData">>]
               [] OTHER ->
                    [url |-> IF s2.kind = "return" THEN s2.val ELSE NULL,
                     steps |-> <<"sharedData", "jsonLd">>]

\* extractInstagramMediaUrl of part_001 and part_002: the _sharedData step only
extractInstagramMediaUrl_sd(page, type) ==
    IF page.fetch # "ok" THEN [url |-> NULL, steps |-> <<>>]
    ELSE LET s1 == IgSharedDataStep(page, type)
         IN  [url |-> IF s1.kind = "return" THEN s1.val ELSE NULL,
              steps |-> <<"sharedData">>]

\* String.prototype.includes on the media URLs of the model
IncludesMp4(u) == u \in {MEDIA_MP4, IG_VIDEO_URL, OG_VIDEO}
IncludesVideoPath(u) == u \in {MEDIA_VIDEO_PATH, LD_VIDEO}

extractInstagramMediaUrl(h, page, type) ==
    IF h \in {"route", "part_000"}
    THEN extractInstagramMediaUrl_ld(page, type)
    ELSE extractInstagramMediaUrl_sd(page, type)


(***************************************************************************)
(* Facebook pages.  feats is the set of markers present in the HTML:       *)
(*   hd_src, sd_src            hd_src:"..." / sd_src:"..." (unquoted key)  *)
(*   HD_SRC, SD_SRC            the same in another letter case             *)
(*   playable_url_quality_hd, playable_url, browser_native_hd_url,         *)
(*   browser_native_sd_url, q_hd_src, q_sd_src, contentUrl                 *)
(*                             "<key>":"..." with the quoted key           *)
(*   PLAYABLE_URL              "playable_url":"..." in another letter case *)
(*   video_url                 "video":{..."url":"..."                     *)
(*   graphql_chunk             a line holding "video" and "playable_url"   *)
(*                             whose only match is the /i graphql pattern  *)
(*   script_playable           a script block holding "playable_url" whose *)
(*                             only match is the /i pattern                *)
(* Every marker carries its own URL, written with escaped slashes.         *)
(***************************************************************************)
FbFeatures == {"hd_src", "sd_src", "HD_SRC", "SD_SRC",
               "playable_url_quality_hd", "playable_url", "PLAYABLE_URL",
               "browser_native_hd_url", "browser_native_sd_url", "video_url",
               "q_hd_src", "q_sd_src", "contentUrl",
               "graphql_chunk", "script_playable"}

FbPage(f, feats) == [fetch |-> f, feats |-> feats]

\* the capture group of a marker, as it stands in the HTML
FbRaw(f) == "https:\\/\\/fb.cdn\\/" \o f
FbUrl(f) == "https://fb.cdn/" \o f

\* match[1].replace(/\\/g, "")
Unescape(raw) ==
    IF \E f \in FbFeatures : raw = FbRaw(f)
    THEN FbUrl(CHOOSE f \in FbFeatures : raw = FbRaw(f))
    ELSE raw

\* first marker of the list order present in feats, NULL when none is
RECURSIVE FirstPresent(_, _)
FirstPresent(order, feats) ==
    IF order = <<>> THEN NULL
    ELSE IF Head(order) \in feats THEN Head(order)
    ELSE FirstPresent(Tail(order), feats)

\* extractFacebookVideoUrl of part_000 (also defined, unused, in route.ts):
\* hd_src then sd_src, case-sensitive, the capture returned as it stands
extractFacebookVideoUrl(page) ==
    IF page.fetch # "ok" THEN NULL
    ELSE LET m == FirstPresent(<<"hd_src", "sd_src">>, page.feats)
         IN  IF m = NULL THEN NULL ELSE FbRaw(m)

\* the inline chain of route.ts and part_001 (case-insensitive): hd_src, sd_src,
\* then "playable_url" unescaped; NULL when nothing matches
FbRedirectTarget(page) ==
    LET hd == FirstPresent(<<"hd_src", "HD_SRC">>, page.feats)
        sd == FirstPresent(<<"sd_src", "SD_SRC">>, page.feats)
        pl == FirstPresent(<<"playable_url", "PLAYABLE_URL", "graphql_chunk",
                             "script_playable">>, page.feats)
    IN  IF hd # NULL THEN FbRaw(hd)
        ELSE IF sd # NULL THEN FbRaw(sd)
        ELSE IF pl # NULL THEN Unescape(FbRaw(pl))
        ELSE NULL

\* dataMatches of part_002, in the order of the array
dataMatches == <<"playable_url_quality_hd", "playable_url",
                 "browser_native_hd_url", "browser_native_sd_url",
                 "video_url", "q_hd_src", "q_sd_src", "contentUrl">>

\* the extraction of part_002: dataMatches, then the graphql pass over the
\* lines, then the script-tag pass
FbVideoUrl(page) ==
    LET m == FirstPresent(dataMatches, page.feats)
    IN  IF m # NULL THEN Unescape(FbRaw(m))
        ELSE IF "graphql_chunk" \in page.feats THEN Unescape(FbRaw("graphql_chunk"))
        ELSE IF "script_playable" \in page.feats THEN Unescape(FbRaw("script_playable"))
        ELSE NULL

\* the markers the extraction of a revision looks for
FbPatterns(h) ==
    CASE h = "part_000" -> {"hd_src", "sd_src"}
      [] h \in {"route", "part_001"} ->
            {"hd_src", "HD_SRC", "sd_src", "SD_SRC", "playable_url",
             "PLAYABLE_URL", "graphql_chunk", "script_playable"}
      [] OTHER -> {dataMatches[k] : k \in 1..Len(dataMatches)}
                    \cup {"graphql_chunk", "script_playable"}

\* the video URL a revision resolves from the page, NULL when it finds none
resolveFacebookVideoUrl(h, page) ==
    IF page.fetch # "ok" THEN NULL
    ELSE CASE h = "part_000" -> extractFacebookVideoUrl(page)
           [] h = "part_002" -> FbVideoUrl(page)
           [] OTHER -> FbRedirectTarget(page)

\* url.includes('watch?v=') with a video id after it
FbWatchUrl(url) == url = FB_URL


(***************************************************************************)
(* YouTube metadata.  A format (variant) is a record of the fields the     *)
(* handlers read.  FALSE, 0 and "" stand for an absent field; audioBitrate *)
(* is UNDEFINED (absent), NULL or a number written as a string.            *)
(***************************************************************************)
Format(it, hv, ha, h, w, fps, ql, q, c, mt, aq, ab) ==
    [itag |-> it, hasVideo |-> hv, hasAudio |-> ha, height |-> h, width |-> w,
     fps |-> fps, qualityLabel |-> ql, quality |-> q, container |-> c,
     mimeType |-> mt, audioQuality |-> aq, audioBitrate |-> ab]

\* formats as ytdl.getInfo returns them (hasVideo, hasAudio, container set)
F18 == Format(18, TRUE, TRUE, 360, 640, 30, "360p", "medium", "mp4",
              "video/mp4; codecs=\"avc1.42001E, mp4a.40.2\"", "AUDIO_QUALITY_LOW", "96")
F22 == Format(22, TRUE, TRUE, 720, 1280, 30, "720p", "hd720", "mp4",
              "video/mp4; codecs=\"avc1.64001F, mp4a.40.2\"", "AUDIO_QUALITY_MEDIUM", "192")
F248 == Format(248, TRUE, FALSE, 1080, 1920, 30, "1080p", "hd1080", "webm",
               "video/webm; codecs=\"vp9\"", "", NULL)
F136 == Format(136, TRUE, FALSE, 720, 1280, 30, "720p", "hd720", "mp4",
               "video/mp4; codecs=\"avc1.4d401f\"", "", NULL)
F140 == Format(140, FALSE, TRUE, 0, 0, 0, "", "tiny", "mp4",
               "audio/mp4; codecs=\"mp4a.40.2\"", "AUDIO_QUALITY_MEDIUM", "128")
\* a format without container and mimeType
FBare == Format(5, TRUE, TRUE, 240, 0, 0, "240p", "small", "", "", "", UNDEFINED)
\* a format as the player response lists it: no hasVideo, hasAudio, container
R22 == Format(22, FALSE, FALSE, 720, 1280, 30, "720p", "hd720", "",
              "video/mp4; codecs=\"avc1.64001F, mp4a.40.2\"", "AUDIO_QUALITY_MEDIUM", UNDEFINED)

\* answers of ytdl.getInfo / getBasicInfo: it throws, or returns the video
\* details (thumbs: whether thumbnails[] is non-empty) and the formats
YtInfo(o, t, fs) == [out |-> o, thumbs |-> t, formats |-> fs]
YtInfos == {YtInfo("throw", FALSE, <<>>),
            YtInfo("ok", FALSE, <<F18>>),
            YtInfo("ok", TRUE, <<>>),
            YtInfo("ok", TRUE, <<F140>>),
            YtInfo("ok", TRUE, <<FBare>>),
            YtInfo("ok", TRUE, <<F18, F248, F22, F140>>)}

\* the first digit sequence of a quality label / quality string, -1 when none
FirstDigits(str) ==
    CASE str \in {"240p"} -> 240
      [] str \in {"360p"} -> 360
      [] str \in {"720p", "hd720"} -> 720
      [] str \in {"1080p", "hd1080"} -> 1080
      [] OTHER -> -1

\* quality?.includes('p')
IncludesP(str) == str \in {"240p", "360p", "720p", "1080p"}

\* parseInt of the quality parameter, -1 for NaN
ParseInt(q) ==
    CASE q = "18" -> 18
      [] q = "22" -> 22
      [] q = "248" -> 248
      [] OTHER -> -1

Qualities == {"", "22", "hd"}

\* Array.prototype.find: the first element that passes, or NoFormat
NoFormat == Format(0, FALSE, FALSE, 0, 0, 0, "", "", "", "", "", UNDEFINED)
FindItag(formats, itag) ==
    LET hit == {k \in 1..Len(formats) : formats[k].itag = itag}
    IN  IF hit = {} THEN NoFormat
        ELSE formats[CHOOSE k \in hit : \A j \in hit : k <= j]

\* stable insertion of x into a sequence sorted by the comparator cmp, given
\* as the table of its values (cmp[a, b] < 0: a first)
InsertSorted(x, sorted, cmp) ==
    LET stop == {j \in 1..Len(sorted) : ~(cmp[x, sorted[j]] < 0)}
        p == IF stop = {} THEN 0 ELSE CHOOSE j \in stop : \A k \in stop : k <= j
    IN  SubSeq(sorted, 1, p) \o <<x>> \o SubSeq(sorted, p + 1, Len(sorted))

\* Array.prototype.sort with a consistent comparator: the stable sort
SortBy(seq, cmp) ==
    LET srt[n \in 0..Len(seq)] ==
            IF n = 0 THEN <<>> ELSE InsertSorted(seq[n], srt[n - 1], cmp)
    IN  srt[Len(seq)]

\* a consistent comparator (ECMAScript, Array.prototype.sort): the table
\* orders the elements as a total preorder
Sign(n) == IF n < 0 THEN -1 ELSE IF n > 0 THEN 1 ELSE 0
ConsistentComparator(each, cmp) ==
    /\ \A a, b \in each : Sign(cmp[a, b]) = -Sign(cmp[b, a])
    /\ \A a, b, c \in each : (cmp[a, b] <= 0 /\ cmp[b, c] <= 0) => cmp[a, c] <= 0

\* the arrangements of seq
Arrangements(seq) ==
    {[k \in 1..Len(seq) |-> seq[pi[k]]] : pi \in
        {f \in [1..Len(seq) -> 1..Len(seq)] : \A i, j \in 1..Len(seq) : f[i] = f[j] => i = j}}

\* Array.prototype.sort: the stable sort when the comparator is consistent,
\* an implementation-defined order of the elements when it is not
SortOutcomes(seq, cmp) ==
    IF ConsistentComparator({seq[k] : k \in 1..Len(seq)}, cmp)
    THEN {SortBy(seq, cmp)}
    ELSE Arrangements(seq)

\* route.ts: the filter of info.formats
IsVideoFormat(f) ==
    \/ f.hasVideo \/ f.qualityLabel # "" \/ IncludesP(f.quality)
    \/ f.height # 0 \/ f.width # 0 \/ f.fps # 0

\* route.ts: getQualityNumber
getQualityNumber(f) ==
    IF f.height # 0 THEN f.height
    ELSE IF f.qualityLabel # "" /\ FirstDigits(f.qualityLabel) >= 0
        THEN FirstDigits(f.qualityLabel)
    ELSE IF f.quality # "" /\ FirstDigits(f.quality) >= 0
        THEN FirstDigits(f.quality)
    ELSE 0

\* route.ts: a.hasAudio || a.audioQuality || a.audioBitrate, the value itself
AudioValue(f) ==
    IF f.hasAudio THEN "true"
    ELSE IF f.audioQuality # "" THEN f.audioQuality
    ELSE f.audioBitrate

\* route.ts: the sort comparator
compareFormats(a, b) ==
    IF getQualityNumber(a) # getQualityNumber(b)
        THEN getQualityNumber(b) - getQualityNumber(a)
    ELSE IF AudioValue(a) # AudioValue(b) THEN (IF ~Falsy(AudioValue(a)) THEN -1 ELSE 1)
    ELSE IF a.container # "" /\ b.container = "" THEN -1
    ELSE IF a.container = "" /\ b.container # "" THEN 1
    ELSE 0

\* part_001, part_002: (b.height || 0) - (a.height || 0)
compareHeight(a, b) == b.height - a.height

FORMAT_TYPE_ERROR == "TypeError: Cannot read properties of undefined (reading 'itag')"
NO_FORMAT == "No suitable format found"
Selected(f) == [ok |-> TRUE, format |-> f, error |-> ""]
SelectError(msg) == [ok |-> FALSE, format |-> NoFormat, error |-> msg]

\* the comparator of a revision as a table over the elements of formats
ComparatorTable(h, formats) ==
    LET each == {formats[k] : k \in 1..Len(formats)}
    IN  [a \in each, b \in each |->
            IF h = "route" THEN compareFormats(a, b) ELSE compareHeight(a, b)]

\* route.ts: the requested format or the best one; reading format.itag of an
\* undefined formats[0] throws a TypeError before the "No suitable format
\* found" check is reached.  The set of the possible outcomes.
selectFormat_route(info, quality) ==
    LET formats == SelectSeq(info.formats, IsVideoFormat)
        asked == IF Falsy(quality) THEN NoFormat
                 ELSE FindItag(formats, ParseInt(quality))
    IN  IF asked # NoFormat THEN {Selected(asked)}
        ELSE IF formats = <<>> THEN {SelectError(FORMAT_TYPE_ERROR)}
        ELSE {Selected(sorted[1]) :
                sorted \in SortOutcomes(formats, ComparatorTable("route", formats))}

\* ytdl.filterFormats(formats, "videoandaudio") (library)
IsVideoAndAudio(f) == f.hasVideo /\ f.hasAudio

\* part_001, part_002: itag of quality || "18", else the tallest format
selectFormat_part(info, quality) ==
    LET formats == SelectSeq(info.formats, IsVideoAndAudio)
        asked == FindItag(formats, ParseInt(IF Falsy(quality) THEN "18" ELSE quality))
    IN  IF asked # NoFormat THEN {Selected(asked)}
        ELSE IF formats = <<>> THEN {SelectError(NO_FORMAT)}
        ELSE {Selected(sorted[1]) :
                sorted \in SortOutcomes(formats, ComparatorTable("part_001", formats))}

\* the format selection of a revision
selectFormat(h, info, quality) ==
    IF h = "route" THEN selectFormat_route(info, quality)
    ELSE selectFormat_part(info, quality)


(***************************************************************************)
(* Requests, responses and the cache                                       *)
(***************************************************************************)
Request(u, t, q, m) == [url |-> u, type |-> t, quality |-> q, media_url |-> m]
NoRequest == Request("", "", "", "")

\* the types whose case block stores a file under public/downloads
StoringTypes == {"youtube", "reel", "post", "profile", "facebook"}

\* the query strings sent to the handler ("" is an absent parameter)
RequestInputs ==
    {Request("", "youtube", "", ""), Request(YT_OK, "", "", ""),
     Request(IG_URL, "tiktok", "", ""), Request(YT_BAD, "youtube", "", "")}
    \cup {Request(YT_OK, "youtube", q, "") : q \in Qualities}
    \cup {Request(IG_URL, t, "", m) : t \in IgTypes,
                                       m \in {"", MEDIA_MP4, MEDIA_JPG, MEDIA_VIDEO_PATH}}
    \cup {Request(FB_URL, "facebook", "", "")}

\* the pages the upstream serves to a handler
IgMainPages ==
    IgFailedFetches \cup
    {IgPage("ok", "none", "none", "none", "none", TRUE, TRUE),
     IgPage("ok", "bad", "none", "none", "video", FALSE, FALSE),
     IgPage("ok", "ok", "img", "hd", "none", FALSE, FALSE),
     IgPage("ok", "ok", "vid", "none", "none", FALSE, FALSE),
     IgPage("ok", "none", "none", "none", "image", FALSE, FALSE)}

FbMainPages ==
    {FbPage("throw", {}), FbPage("notok", {}), FbPage("ok", {}),
     FbPage("ok", {"hd_src"}), FbPage("ok", {"playable_url"}),
     FbPage("ok", {"q_sd_src", "contentUrl"})}

Response(k, st, ok, err, dl, fn, ct, ti, th, ext, lc) ==
    [kind |-> k, status |-> st, success |-> ok, error |-> err, downloadUrl |-> dl,
     fileName |-> fn, contentType |-> ct, title |-> ti, thumbnail |-> th,
     isExternal |-> ext, location |-> lc]

NoResponse == Response("none", 0, FALSE, "", "", "", "", "", "", FALSE, "")

\* NextResponse.json({ error }, { status })
JsonError(status, msg) ==
    Response("json", status, FALSE, msg, "", "", "", "", "", FALSE, "")

\* NextResponse.redirect(target)
Redirect(target) ==
    Response("redirect", 307, FALSE, "", "", "", "", "", "", FALSE, target)

\* the handler's local variables after the declarations at the top of GET
Locals(fn, ct, ti, th, mu, bd, ck) ==
    [fileName |-> fn, contentType |-> ct, title |-> ti, thumbnail |-> th,
     mediaUrl |-> mu, body |-> bd, cookies |-> ck]
InitialLocals(h) ==
    IF h = "part_000" THEN Locals("", "", "", "", "", "", "")
    ELSE Locals("", "", NULL, NULL, "", "", "")

\* the success payload at the end of GET
SuccessPayload(l) ==
    Response("json", 200, TRUE, "", "/downloads/" \o l.fileName, l.fileName,
             l.contentType, l.title, l.thumbnail, FALSE, "")

VIDEO_UNAVAILABLE == "Could not access the Facebook video. This could be because: ..."
UNSUPPORTED == "Unsupported content type"

\* what follows a case block that reached its end: the break leads to the
\* success payload; the facebook case of part_002 has no break and falls
\* through to the default case
Finish(h, type, l) ==
    IF h = "part_002" /\ type = "facebook" THEN JsonError(400, UNSUPPORTED)
    ELSE SuccessPayload(l)

\* existsSync(filePath)
existsSync(fs, fn) == fn \in DOMAIN fs

File(b, s) == [bytes |-> b, src |-> s]
\* the file after fn was written by a writer: created or replaced
WriteTo(fs, fn, f) == [x \in DOMAIN fs \cup {fn} |-> IF x = fn THEN f ELSE fs[x]]

\* a step of a handler ends with a response, and its locals are gone, or at
\* the next await
Discarded == Locals("", "", "", "", "", "", "")
Done(r, l) == [pc |-> "done", resp |-> r, loc |-> Discarded]
Goto(label, l) == [pc |-> label, resp |-> NoResponse, loc |-> l]

Fetch(res) == [ev |-> "fetch", res |-> res]
Fail(res) == [ev |-> "fail", res |-> res]
\* the log entries of one fetch that succeeded or failed
FetchLog(res, ok) == IF ok THEN <<Fetch(res)>> ELSE <<Fetch(res), Fail(res)>>


(***************************************************************************)
(* GET, from the top of the handler to its first await                     *)
(***************************************************************************)
\* case "youtube"
YouTubeEntry(h, p, fs) ==
    LET l0 == InitialLocals(h)
        cached == [l0 EXCEPT !.fileName = "youtube-" \o createUrlHash(p.url) \o ".mp4",
                             !.contentType = "video/mp4"]
    IN  CASE h = "part_000" ->
                IF extractYouTubeVideoId(p.url) = NULL
                THEN Done(JsonError(500, "Could not extract YouTube video info"), l0)
                ELSE Goto("yt_oembed", l0)
          [] h = "route" ->
                IF ~ytdlValidateURL(p.url)
                THEN Done(JsonError(500, "Failed to process YouTube video: Invalid YouTube URL"), l0)
                ELSE Goto("yt_info", l0)
          [] OTHER ->
                IF ~ytdlValidateURL(p.url)
                THEN Done(JsonError(500, "Invalid YouTube URL"), l0)
                ELSE IF existsSync(fs, cached.fileName)
                THEN Done(SuccessPayload(cached), cached)
                ELSE Goto("yt_info", cached)

\* case "reel" / "post" / "profile" of route.ts, part_001 and part_002: the
\* first, combined case block (the later case "post" and case "profile"
\* blocks of these files repeat labels already taken and are never entered)
InstagramDirect(h, p) ==
    LET l0 == InitialLocals(h)
        isVideo == IncludesMp4(p.media_url)
        l == [l0 EXCEPT !.fileName = "instagram-" \o p.type \o "-" \o createUrlHash(p.url)
                                        \o (IF isVideo THEN ".mp4" ELSE ".jpg"),
                        !.contentType = IF isVideo THEN "video/mp4" ELSE "image/jpeg",
                        !.mediaUrl = p.media_url]
    IN  IF Falsy(p.media_url)
        THEN Done(JsonError(400, "Missing media URL"), l0)
        ELSE Goto("media_fetch", l)

\* case "reel" / "post" / "profile" of part_000
InstagramScrape(h, p, fs) ==
    LET l0 == InitialLocals(h)
        l == [l0 EXCEPT !.fileName = "instagram-" \o p.type \o "-" \o createUrlHash(p.url)
                                        \o (IF p.type = "reel" THEN ".mp4" ELSE ".jpg"),
                        !.contentType = IF p.type = "reel" THEN "video/mp4" ELSE "image/jpeg"]
    IN  IF p.type = "post" THEN Goto("ig_page", l0)
        ELSE IF existsSync(fs, l.fileName) THEN Done(SuccessPayload(l), l)
        ELSE Goto("ig_page", l)

InstagramEntry(h, p, fs) ==
    IF h = "part_000" THEN InstagramScrape(h, p, fs) ELSE InstagramDirect(h, p)

\* case "facebook"
FacebookEntry(h, p, fs) ==
    LET l0 == InitialLocals(h)
        l == [l0 EXCEPT !.fileName = "facebook-video-" \o createUrlHash(p.url) \o ".mp4",
                        !.contentType = "video/mp4"]
    IN  CASE h = "part_000" ->
                IF existsSync(fs, l.fileName) THEN Done(SuccessPayload(l), l)
                ELSE Goto("fb_page", l)
          [] h = "part_002" -> Goto("fb_home", l0)
          [] OTHER -> Goto("fb_page", l0)

\* if (!url || !type) of route.ts, part_001, part_002; if (!url) of part_000
ParamsPresent(h, p) == ~Falsy(p.url) /\ (h = "part_000" \/ ~Falsy(p.type))

\* the parameter check, ensureDownloadsDir (dirOk: mkdir did not throw) and
\* the switch on type
Entry(h, p, dirOk, fs) ==
    IF ~ParamsPresent(h, p)
        THEN Done(JsonError(400, IF h = "part_000" THEN "URL is required"
                                 ELSE "Missing URL or type"), InitialLocals(h))
    ELSE IF ~dirOk
        THEN Done(JsonError(500, "Failed to process request"), InitialLocals(h))
    ELSE CASE p.type = "youtube" -> YouTubeEntry(h, p, fs)
           [] p.type \in IgTypes -> InstagramEntry(h, p, fs)
           [] p.type = "facebook" -> FacebookEntry(h, p, fs)
           [] OTHER -> Done(JsonError(400, UNSUPPORTED), InitialLocals(h))


(***************************************************************************)
(* GET, after each await                                                   *)
(***************************************************************************)
ExtractFailed(type) ==
    CASE type = "reel" -> "Could not extract Instagram reel URL"
      [] type = "post" -> "Could not extract Instagram post URL"
      [] OTHER -> "Could not extract Instagram profile picture URL"

\* part_000, after extractInstagramMediaUrl(url, type)
AfterIgPage(h, p, l, page, fs) ==
    LET mediaUrl == extractInstagramMediaUrl(h, page, p.type).url
        isVideo == IncludesMp4(mediaUrl) \/ IncludesVideoPath(mediaUrl)
        post == [l EXCEPT !.fileName = "instagram-post-" \o createUrlHash(p.url)
                                           \o (IF isVideo THEN ".mp4" ELSE ".jpg"),
                          !.contentType = IF isVideo THEN "video/mp4" ELSE "image/jpeg",
                          !.mediaUrl = mediaUrl]
    IN  IF Falsy(mediaUrl) THEN Done(JsonError(500, ExtractFailed(p.type)), l)
        ELSE IF p.type # "post" THEN Goto("media_fetch", [l EXCEPT !.mediaUrl = mediaUrl])
        ELSE IF existsSync(fs, post.fileName) THEN Done(SuccessPayload(post), post)
        ELSE Goto("media_fetch", post)

\* after the fetch of the facebook page and the extraction from its HTML
AfterFbPage(h, p, l, page, fs) ==
    LET target == FbRedirectTarget(page)
        raw == extractFacebookVideoUrl(page)
        videoUrl == FbVideoUrl(page)
        l2 == [l EXCEPT !.fileName = "facebook-" \o createUrlHash(p.url) \o ".mp4",
                        !.contentType = "video/mp4",
                        !.mediaUrl = videoUrl]
    IN  CASE h = "part_000" ->
                IF raw = NULL
                THEN Done(JsonError(500, "Could not extract Facebook video URL"), l)
                ELSE Goto("media_fetch", [l EXCEPT !.mediaUrl = raw])
          [] h = "part_002" ->
                IF page.fetch = "throw" THEN Done(JsonError(500, "fetch failed"), l)
                ELSE IF page.fetch = "notok"
                    THEN Done(JsonError(500, "Failed to fetch Facebook page"), l)
                ELSE IF videoUrl = NULL THEN Done(JsonError(500, VIDEO_UNAVAILABLE), l)
                ELSE IF existsSync(fs, l2.fileName) THEN Done(Finish(h, p.type, l2), l2)
                ELSE Goto("media_fetch", l2)
          [] OTHER ->
                IF page.fetch # "ok" \/ target = NULL THEN Done(Redirect(p.url), l)
                ELSE Done(Redirect(target), l)

\* part_002, after the fetch of https://www.facebook.com: response.ok is not
\* looked at, only a rejected fetch ends the request
AfterFbHome(l, out, cookies) ==
    IF out = "throw" THEN Done(JsonError(500, "fetch failed"), l)
    ELSE Goto("fb_page", [l EXCEPT !.cookies = cookies])

\* part_000, after extractYouTubeInfo(url)
AfterOembed(p, l, out, title) ==
    LET videoId == extractYouTubeVideoId(p.url)
    IN  IF out # "ok"
        THEN Done(JsonError(500, "Could not extract YouTube video info"), l)
        ELSE Done(Response("json", 200, TRUE, "",
                           "https://www.youtube.com/watch?v=" \o videoId,
                           "youtube-" \o videoId \o ".mp4", "video/mp4",
                           IF Falsy(title) THEN "YouTube Video" ELSE title,
                           "https://i.ytimg.com/vi/" \o videoId \o "/maxresdefault.jpg",
                           TRUE, ""), l)

THUMBNAIL_TYPE_ERROR == "TypeError: Cannot read properties of undefined (reading 'url')"
YtError(h, msg) ==
    JsonError(500, IF h = "route" THEN "Failed to process YouTube video: " \o msg ELSE msg)

\* after ytdl.getBasicInfo (route.ts) / ytdl.getInfo (part_001, part_002), up
\* to the creation of the download stream
AfterYtInfo(h, p, l, info, sel) ==
    LET f == sel.format
        l1 == [l EXCEPT !.title = "title", !.thumbnail = "thumbnail"]
        l2 == IF h = "route"
              THEN [l1 EXCEPT !.fileName = "youtube-" \o createUrlHash(p.url) \o "."
                                  \o (IF f.container = "" THEN "mp4" ELSE f.container),
                              !.contentType = IF f.mimeType = "" THEN "video/mp4"
                                              ELSE f.mimeType]
              ELSE l1
    IN  IF info.out = "throw"
        THEN Done(YtError(h, IF h = "route" THEN "getBasicInfo failed"
                             ELSE "Could not get video information"), l)
        ELSE IF ~info.thumbs THEN Done(YtError(h, THUMBNAIL_TYPE_ERROR), [l EXCEPT !.title = "title"])
        ELSE IF ~sel.ok THEN Done(YtError(h, sel.error), l1)
        ELSE Goto("yt_stream", [l2 EXCEPT !.mediaUrl = "ytdl(" \o p.url \o ")"])

\* the error response after a failed media download
DownloadFailed(h, type) ==
    CASE type = "facebook" -> JsonError(500, "Failed to download Facebook video")
      [] h = "part_000" /\ type = "profile" ->
            JsonError(500, "Failed to download Instagram profile picture")
      [] OTHER -> JsonError(500, "Failed to download Instagram " \o type)

\* part_001, part_002: statSync(filePath).size === 0 after the download
EmptyCheck(h, fs, l) ==
    IF h # "route" /\ fs[l.fileName].bytes = "none"
    THEN YtError(h, "Download failed - file is empty")
    ELSE SuccessPayload(l)


(***************************************************************************)
(* actions.ts: downloadContent, the classifier in front of the proxy.      *)
(* It looks at a url through String.prototype.includes and through the     *)
(* video-id pattern, so a url is the set of the substrings it includes and *)
(* the length of group 7 of the pattern (-1: the pattern does not match).  *)
(***************************************************************************)
VIDEO_ID_LENGTH == 11

UrlMarkers == {"youtube.com", "youtu.be", "instagram.com", "facebook.com", "fb.com",
               "/reel/", "/p/"}
PlatformMarkers == {"youtube.com", "youtu.be", "instagram.com", "facebook.com", "fb.com"}

Url(e, inc, cap) == [empty |-> e, includes |-> inc, capture |-> cap]
EMPTY_URL == Url(TRUE, {}, -1)
Urls == {EMPTY_URL} \cup
        {Url(FALSE, inc, cap) : inc \in SUBSET UrlMarkers, cap \in -1..MaxIdLen}

\* url.includes(marker)
Includes(url, marker) == marker \in url.includes

\* a variant of extractYouTubeVideoId that accepts every id of 11 characters
\* or more
extractYouTubeVideoId_atLeast(url) ==
    IF url.capture # -1 /\ url.capture >= VIDEO_ID_LENGTH THEN url.capture ELSE -1

\* actions.ts extractYouTubeVideoId: match && match[7].length === 11 ? match[7] : null,
\* the id given by its length
extractYouTubeVideoId_actions(url) ==
    IF url.capture # -1 /\ url.capture = VIDEO_ID_LENGTH THEN url.capture ELSE -1

validateYouTubeUrl(url) == extractYouTubeVideoId_actions(url) # -1

\* what downloadContent returns; proxyType is the type parameter of
\* downloadUrl, "" when the result has no downloadUrl; called is the platform
\* handler that was invoked, "" when none was
Outcome(ok, msg, pt, ty, ti, called) ==
    [success |-> ok, message |-> msg, proxyType |-> pt, type |-> ty, title |-> ti,
     called |-> called]
NoOutcome == Outcome(FALSE, "not run", "", "", "", "")

handleYouTube(url) ==
    IF ~validateYouTubeUrl(url)
    THEN Outcome(FALSE, "Invalid YouTube URL", "", "", "", "handleYouTube")
    ELSE Outcome(TRUE, "YouTube video processed successfully", "youtube", "Video",
                 "YouTube Video (ID)", "handleYouTube")

handleInstagram(url) ==
    IF Includes(url, "/reel/")
    THEN Outcome(TRUE, "Instagram reel processed successfully", "reel", "Reel",
                 "Instagram Reel", "handleInstagram")
    ELSE IF Includes(url, "/p/")
    THEN Outcome(TRUE, "Instagram post processed successfully", "post", "Post",
                 "Instagram Post", "handleInstagram")
    ELSE Outcome(TRUE, "Instagram profile photo processed successfully", "profile",
                 "Profile Photo", "Profile Photo: @", "handleInstagram")

handleFacebook(url) ==
    Outcome(TRUE, "Facebook video processed successfully", "facebook", "Video",
            "Facebook Video", "handleFacebook")

UNSUPPORTED_URL == "Unsupported URL. Please try a YouTube, Instagram, or Facebook URL."

\* a variant of downloadContent that does not look for fb.com
downloadContent_noShortHost(url) ==
    IF url.empty THEN Outcome(FALSE, "Please provide a URL", "", "", "", "")
    ELSE IF Includes(url, "youtube.com") \/ Includes(url, "youtu.be") THEN handleYouTube(url)
    ELSE IF Includes(url, "instagram.com") THEN handleInstagram(url)
    ELSE IF Includes(url, "facebook.com") THEN handleFacebook(url)
    ELSE Outcome(FALSE, UNSUPPORTED_URL, "", "", "", "")

downloadContent(url) ==
    IF url.empty THEN Outcome(FALSE, "Please provide a URL", "", "", "", "")
    ELSE IF Includes(url, "youtube.com") \/ Includes(url, "youtu.be") THEN handleYouTube(url)
    ELSE IF Includes(url, "instagram.com") THEN handleInstagram(url)
    ELSE IF Includes(url, "facebook.com") \/ Includes(url, "fb.com") THEN handleFacebook(url)
    ELSE Outcome(FALSE, UNSUPPORTED_URL, "", "", "", "")

\* the query string of the downloadUrl built by handleYouTube, handleInstagram
\* and handleFacebook, /api/proxy?url=...&type=..., as the proxy parses it
ProxyUrl(url) ==
    IF Includes(url, "youtube.com") \/ Includes(url, "youtu.be") THEN YT_OK
    ELSE IF Includes(url, "instagram.com") THEN IG_URL
    ELSE FB_URL
ProxyRequest(url, out) == Request(ProxyUrl(url), out.proxyType, "", "")


(***************************************************************************)
(* The requests as processes                                               *)
(***************************************************************************)
EmptyDir == [x \in {} |-> File("none", "")]

\* the pair of streams of a youtube download: the ytdl stream piped into the
\* write stream of file fn.  "piping": both open; "closed": both ended or
\* destroyed; "reading": the write stream failed and the ytdl stream was left
\* open; "stalled": it read on until its buffer was full; "draining": the
\* ytdl stream failed and the write stream was left open with chunks still
\* buffered; "open": left open with nothing more to write
Streams(st, fn, src) == [state |-> st, file |-> fn, src |-> src]
NoStreams == Streams("none", "", "")
Read(res) == [ev |-> "read", res |-> res]

\* stream.on('error'): part_001 and part_002 destroy the write stream, route.ts
\* only rejects
OnStreamError(h, l) ==
    Streams(IF h = "route" THEN "draining" ELSE "closed", l.fileName, l.mediaUrl)
\* writeStream.on('error'): part_001 and part_002 destroy the ytdl stream,
\* route.ts only rejects
OnWriteError(h, l) ==
    Streams(IF h = "route" THEN "reading" ELSE "closed", l.fileName, l.mediaUrl)
NotRun == [url |-> "not run", steps |-> <<>>]

\* request i moves on as step result r says and logs its fetches
Apply(i, r, fetched) ==
    /\ pc' = [pc EXCEPT ![i] = r.pc]
    /\ resp' = [resp EXCEPT ![i] = r.resp]
    /\ loc' = [loc EXCEPT ![i] = r.loc]
    /\ net' = [net EXCEPT ![i] = @ \o fetched]

\* The file name of every case block starts with its type, so requests of
\* different types never meet in the cache: one behaviour holds requests of
\* one storing type, with the requests that are rejected up front among them.
SameType(i, p) ==
    \A j \in Reqs :
        (pc[j] # "idle" /\ rq[j].type \in StoringTypes /\ p.type \in StoringTypes)
            => rq[j].type = p.type

\* a variant of Start under mutual exclusion: a request waits while another
\* request for the same url and type is being handled
Start_exclusive(i) ==
    /\ pc[i] = "idle"
    /\ \A j \in Reqs : j < i => pc[j] # "idle"
    /\ \E p \in RequestInputs, dirOk \in BOOLEAN :
        /\ SameType(i, p)
        /\ \A j \in Reqs :
            pc[j] \notin {"idle", "done"} => (rq[j].url # p.url \/ rq[j].type # p.type)
        /\ rq' = [rq EXCEPT ![i] = p]
        /\ Apply(i, Entry(handler, p, dirOk, files),
                 IF ParamsPresent(handler, p) /\ ~dirOk THEN <<Fail("mkdir")>> ELSE <<>>)
    /\ prior' = [prior EXCEPT ![i] = {j \in Reqs : pc[j] = "done"}]
    /\ UNCHANGED <<handler, live, files, fvars>>

\* a request arrives: everything up to the first await
Start(i) ==
    /\ pc[i] = "idle"
    /\ \A j \in Reqs : j < i => pc[j] # "idle"
    /\ \E p \in RequestInputs, dirOk \in BOOLEAN :
        /\ SameType(i, p)
        /\ rq' = [rq EXCEPT ![i] = p]
        /\ Apply(i, Entry(handler, p, dirOk, files),
                 IF ParamsPresent(handler, p) /\ ~dirOk THEN <<Fail("mkdir")>> ELSE <<>>)
    /\ prior' = [prior EXCEPT ![i] = {j \in Reqs : pc[j] = "done"}]
    /\ UNCHANGED <<handler, live, files, fvars>>

\* part_000: the oEmbed fetch of extractYouTubeInfo settles
YtOembed(i) ==
    /\ pc[i] = "yt_oembed"
    /\ \E out \in {"throw", "notok", "ok"}, title \in {"", "title"} :
        Apply(i, AfterOembed(rq[i], loc[i], out, title), FetchLog("oembed", out = "ok"))
    /\ UNCHANGED <<handler, live, files, rq, prior, fvars>>

\* ytdl.getBasicInfo / getInfo settles; on success the download stream and
\* the write stream are created (openOk: the file could be opened)
YtInfoStep(i) ==
    /\ pc[i] = "yt_info"
    /\ \E info \in YtInfos, openOk \in BOOLEAN :
      \E sel \in selectFormat(handler, info, rq[i].quality) :
        LET r == AfterYtInfo(handler, rq[i], loc[i], info, sel)
            meta == FetchLog("meta", info.out = "ok")
        IN  IF r.pc # "yt_stream"
            THEN /\ Apply(i, r, IF info.out # "ok" THEN meta
                                ELSE IF ~info.thumbs THEN meta \o <<Fail("thumbnail")>>
                                ELSE meta \o <<Fail("format")>>)
                 /\ files' = files
                 /\ live' = live
            ELSE IF openOk
            THEN /\ Apply(i, r, meta \o <<Fetch("media")>>)
                 /\ files' = WriteTo(files, r.loc.fileName, File("none", r.loc.mediaUrl))
                 /\ live' = [live EXCEPT ![i] = Streams("piping", r.loc.fileName, r.loc.mediaUrl)]
            ELSE /\ Apply(i, Done(YtError(handler, "write error"), r.loc),
                          meta \o <<Fetch("media"), Fail("write")>>)
                 /\ files' = files
                 /\ live' = [live EXCEPT ![i] = OnWriteError(handler, r.loc)]
    /\ UNCHANGED <<handler, rq, prior, fvars>>

\* a chunk of the media stream is piped into the file
YtData(i) ==
    /\ pc[i] = "yt_stream"
    /\ files' = WriteTo(files, loc[i].fileName, File("part", loc[i].mediaUrl))
    /\ UNCHANGED <<handler, live, pc, rq, loc, resp, net, prior, fvars>>

\* the media stream ends, the write stream finishes, the promise resolves
YtFinish(i) ==
    /\ pc[i] = "yt_stream"
    /\ LET f == files[loc[i].fileName]
           fs == WriteTo(files, loc[i].fileName,
                         File(IF f.bytes = "none" THEN "none" ELSE "all", loc[i].mediaUrl))
       IN  /\ files' = fs
           /\ Apply(i, Done(EmptyCheck(handler, fs, loc[i]), loc[i]),
                    IF EmptyCheck(handler, fs, loc[i]).success THEN <<>>
                    ELSE <<Fail("empty")>>)
           /\ live' = [live EXCEPT ![i] = Streams("closed", loc[i].fileName, loc[i].mediaUrl)]
    /\ UNCHANGED <<handler, rq, prior, fvars>>

\* a variant of YtStreamError that serves what was written so far: the error
\* ends the download as a finish does
YtStreamError_silent(i) ==
    /\ pc[i] = "yt_stream"
    /\ Apply(i, Done(SuccessPayload(loc[i]), loc[i]), <<Fail("media")>>)
    /\ live' = [live EXCEPT ![i] = OnStreamError(handler, loc[i])]
    /\ UNCHANGED <<handler, files, rq, prior, fvars>>

\* the media stream emits an error: the promise rejects, the file stays
YtStreamError(i) ==
    /\ pc[i] = "yt_stream"
    /\ Apply(i, Done(YtError(handler, "stream error"), loc[i]), <<Fail("media")>>)
    /\ live' = [live EXCEPT ![i] = OnStreamError(handler, loc[i])]
    /\ UNCHANGED <<handler, files, rq, prior, fvars>>

\* a variant of YtWriteError without the reject: the promise stays pending
YtWriteError_pending(i) ==
    /\ pc[i] = "yt_stream"
    /\ Apply(i, Goto("yt_pending", loc[i]), <<Fail("write")>>)
    /\ live' = [live EXCEPT ![i] = OnWriteError(handler, loc[i])]
    /\ UNCHANGED <<handler, files, rq, prior, fvars>>

\* the write stream emits an error: the promise rejects, the file stays
YtWriteError(i) ==
    /\ pc[i] = "yt_stream"
    /\ Apply(i, Done(YtError(handler, "write error"), loc[i]), <<Fail("write")>>)
    /\ live' = [live EXCEPT ![i] = OnWriteError(handler, loc[i])]
    /\ UNCHANGED <<handler, files, rq, prior, fvars>>

\* route.ts: the ytdl stream that nothing destroyed takes more data from
\* upstream until its buffer is full
YtLateRead(i) ==
    /\ live[i].state = "reading"
    /\ live' = [live EXCEPT ![i].state = "stalled"]
    /\ net' = [net EXCEPT ![i] = @ \o <<Read("media")>>]
    /\ UNCHANGED <<handler, files, pc, rq, loc, resp, prior, fvars>>

\* route.ts: the write stream that nothing destroyed writes the chunks it
\* had buffered
YtLateWrite(i) ==
    /\ live[i].state = "draining"
    /\ live' = [live EXCEPT ![i].state = "open"]
    /\ files' = WriteTo(files, live[i].file, File("part", live[i].src))
    /\ UNCHANGED <<handler, pc, rq, loc, resp, net, prior, fvars>>

\* part_000: extractInstagramMediaUrl settles
IgPageStep(i) ==
    /\ pc[i] = "ig_page"
    /\ \E page \in IgMainPages :
        Apply(i, AfterIgPage(handler, rq[i], loc[i], page, files),
              FetchLog("page", page.fetch = "ok")
                \o (IF page.fetch = "ok"
                        /\ Falsy(extractInstagramMediaUrl(handler, page, rq[i].type).url)
                    THEN <<Fail("extract")>> ELSE <<>>))
    /\ UNCHANGED <<handler, live, files, rq, prior, fvars>>

\* part_002: the fetch of the facebook home page settles
FbHomeStep(i) ==
    /\ pc[i] = "fb_home"
    /\ \E out \in {"throw", "notok", "ok"}, cookies \in {"", "c_user=1"} :
        Apply(i, AfterFbHome(loc[i], out, IF out = "throw" THEN "" ELSE cookies),
              FetchLog("home", out = "ok"))
    /\ UNCHANGED <<handler, live, files, rq, prior, fvars>>

\* the fetch of the facebook page settles
FbPageStep(i) ==
    /\ pc[i] = "fb_page"
    /\ \E page \in FbMainPages :
        Apply(i, AfterFbPage(handler, rq[i], loc[i], page, files),
              FetchLog("page", page.fetch = "ok")
                \o (IF page.fetch = "ok" /\ page.feats \cap FbPatterns(handler) = {}
                    THEN <<Fail("extract")>> ELSE <<>>))
    /\ UNCHANGED <<handler, live, files, rq, prior, fvars>>

\* fetch(mediaUrl) and arrayBuffer() settle; on success writeFile opens the
\* file (openOk), truncating what was there
MediaFetch(i) ==
    /\ pc[i] = "media_fetch"
    /\ \E out \in {"throw", "notok", "ok"}, body \in {"data", "empty"}, openOk \in BOOLEAN :
        IF out # "ok"
        THEN /\ Apply(i, Done(DownloadFailed(handler, rq[i].type), loc[i]),
                      FetchLog("media", FALSE))
             /\ files' = files
        ELSE IF ~openOk
        THEN /\ Apply(i, Done(DownloadFailed(handler, rq[i].type), loc[i]),
                      <<Fetch("media"), Fail("write")>>)
             /\ files' = files
        ELSE /\ Apply(i, Goto("write_file", [loc[i] EXCEPT !.body = body]),
                      FetchLog("media", TRUE))
             /\ files' = WriteTo(files, loc[i].fileName, File("none", loc[i].mediaUrl))
    /\ UNCHANGED <<handler, live, rq, prior, fvars>>

\* writeFile settles: the buffer is on disk, or the write failed part-way
WriteFile(i) ==
    /\ pc[i] = "write_file"
    /\ \E written \in {"none", "part", "all"} :
        /\ loc[i].body = "empty" => written = "none"
        /\ files' = WriteTo(files, loc[i].fileName, File(written, loc[i].mediaUrl))
        /\ \E ok \in BOOLEAN :
            /\ loc[i].body = "data" => (ok <=> written = "all")
            /\ Apply(i, Done(IF ok THEN Finish(handler, rq[i].type, loc[i])
                             ELSE DownloadFailed(handler, rq[i].type), loc[i]),
                     IF ok THEN <<>> ELSE <<Fail("write")>>)
    /\ UNCHANGED <<handler, live, rq, prior, fvars>>

\* the harnesses at rest
NotSelected == SelectError("not run")
YtIdle == ytFormats = <<>> /\ ytQuality = "" /\ ytOut = NotSelected
DcIdle == dcUrl = EMPTY_URL /\ dcOut = NoOutcome
FbIdle == fbPage = FbPage("throw", {}) /\ fbOut = "not run"

HInit ==
    /\ files = EmptyDir
    /\ pc = [i \in Reqs |-> "idle"]
    /\ rq = [i \in Reqs |-> NoRequest]
    /\ loc = [i \in Reqs |-> InitialLocals(handler)]
    /\ resp = [i \in Reqs |-> NoResponse]
    /\ net = [i \in Reqs |-> <<>>]
    /\ prior = [i \in Reqs |-> {}]
    /\ live = [i \in Reqs |-> NoStreams]

Init ==
    /\ handler \in Handlers
    /\ HInit
    /\ igPage = IgPage("throw", "none", "none", "none", "none", FALSE, FALSE)
    /\ igType = "reel"
    /\ igOut = NotRun
    /\ YtIdle
    /\ DcIdle
    /\ FbIdle

Next ==
    \E i \in Reqs :
        \/ Start(i)
        \/ YtOembed(i)
        \/ YtInfoStep(i)
        \/ YtData(i)
        \/ YtFinish(i)
        \/ YtStreamError(i)
        \/ YtWriteError(i)
        \/ YtLateRead(i)
        \/ YtLateWrite(i)
        \/ IgPageStep(i)
        \/ FbHomeStep(i)
        \/ FbPageStep(i)
        \/ MediaFetch(i)
        \/ WriteFile(i)

Spec == Init /\ [][Next]_vars

\* what a request does once it has arrived: every await it reached settles
Settle(i) ==
    \/ YtOembed(i)
    \/ YtInfoStep(i)
    \/ YtFinish(i)
    \/ YtStreamError(i)
    \/ YtWriteError(i)
    \/ IgPageStep(i)
    \/ FbHomeStep(i)
    \/ FbPageStep(i)
    \/ MediaFetch(i)
    \/ WriteFile(i)

\* every fetch, media stream and file write that was started completes or
\* errors
SpecLive == Spec /\ \A i \in Reqs : WF_vars(Settle(i))

(***************************************************************************)
(* extractInstagramMediaUrl on its own, over every page                    *)
(***************************************************************************)
IgExtract ==
    /\ igOut = NotRun
    /\ igOut' = extractInstagramMediaUrl(handler, igPage, igType)
    /\ UNCHANGED <<hvars, igPage, igType, ytvars, dcvars, fbvars>>

InitIG ==
    /\ handler \in Handlers
    /\ HInit
    /\ igPage \in IgPages
    /\ igType \in IgTypes
    /\ igOut = NotRun
    /\ YtIdle
    /\ DcIdle
    /\ FbIdle

NextIG == IgExtract

SpecIG == InitIG /\ [][NextIG]_vars


(***************************************************************************)
(* The format selection on its own, over every list of formats             *)
(***************************************************************************)
FormatPool == {F18, F22, F248, F136, F140, FBare, R22}
FormatLists == UNION {[1..n -> FormatPool] : n \in 0..MaxFormats}
QualityInputs == {"", "18", "22", "248", "hd"}

YtSelect ==
    /\ ytOut = NotSelected
    /\ ytOut' \in selectFormat(handler, YtInfo("ok", TRUE, ytFormats), ytQuality)
    /\ UNCHANGED <<hvars, igvars, ytFormats, ytQuality, dcvars, fbvars>>

InitYT ==
    /\ handler \in {"route", "part_001", "part_002"}
    /\ HInit
    /\ igPage = IgPage("throw", "none", "none", "none", "none", FALSE, FALSE)
    /\ igType = "reel"
    /\ igOut = NotRun
    /\ ytFormats \in FormatLists
    /\ ytQuality \in QualityInputs
    /\ ytOut = NotSelected
    /\ DcIdle
    /\ FbIdle

NextYT == YtSelect

SpecYT == InitYT /\ [][NextYT]_vars

(***************************************************************************)
(* downloadContent on its own, over every url                              *)
(***************************************************************************)
DcCall ==
    /\ dcOut = NoOutcome
    /\ dcOut' = downloadContent(dcUrl)
    /\ UNCHANGED <<hvars, igvars, ytvars, dcUrl, fbvars>>

InitDC ==
    /\ handler \in Handlers
    /\ HInit
    /\ igPage = IgPage("throw", "none", "none", "none", "none", FALSE, FALSE)
    /\ igType = "reel"
    /\ igOut = NotRun
    /\ YtIdle
    /\ dcUrl \in Urls
    /\ dcOut = NoOutcome
    /\ FbIdle

NextDC == DcCall

SpecDC == InitDC /\ [][NextDC]_vars


(***************************************************************************)
(* The facebook extraction on its own, over every page with at most        *)
(* MaxMarkers markers                                                      *)
(***************************************************************************)
FbPages ==
    {FbPage("throw", {}), FbPage("notok", {})} \cup
    {FbPage("ok", feats) : feats \in {x \in SUBSET FbFeatures : Cardinality(x) <= MaxMarkers}}

FbExtract ==
    /\ fbOut = "not run"
    /\ fbOut' = resolveFacebookVideoUrl(handler, fbPage)
    /\ UNCHANGED <<hvars, igvars, ytvars, dcvars, fbPage>>

InitFB ==
    /\ handler \in Handlers
    /\ HInit
    /\ igPage = IgPage("throw", "none", "none", "none", "none", FALSE, FALSE)
    /\ igType = "reel"
    /\ igOut = NotRun
    /\ YtIdle
    /\ DcIdle
    /\ fbPage \in FbPages
    /\ fbOut = "not run"

NextFB == FbExtract

SpecFB == InitFB /\ [][NextFB]_vars


(***************************************************************************)
(* Vocabulary of the properties                                            *)
(***************************************************************************)
Answered(i) == pc[i] = "done"
Succeeded(i) == Answered(i) /\ resp[i].kind = "json" /\ resp[i].success
JsonFailure(i) ==
    Answered(i) /\ resp[i].kind = "json" /\ ~resp[i].success /\ resp[i].status \in {400, 500}
Count(i, e) == Cardinality({k \in 1..Len(net[i]) : net[i][k] = e})
Fetched(i, res) == Count(i, Fetch(res)) > 0
MetFailure(i) == \E k \in 1..Len(net[i]) : net[i][k].ev = "fail"
\* request j arrived after request i was answered
After(i, j) == i \in prior[j]
\* request j arrived after every other request was answered
Last(j) == \A k \in Reqs : (k # j /\ pc[k] # "idle") => After(k, j)
\* the success payload names a file of public/downloads
ServesFile(i) == Succeeded(i) /\ ~resp[i].isExternal

(***************************************************************************)
(* C1. Cache idempotence: of two sequential requests with the same url     *)
(* and type (here: the same query), the first of which succeeded with a    *)
(* file it downloaded, the second performs no media fetch: one upstream    *)
(* media fetch in total.                                                   *)
(***************************************************************************)
C1_CacheIdempotence ==
    \A i, j \in Reqs :
        (After(i, j) /\ Answered(j) /\ rq[i] = rq[j] /\ ServesFile(i)
            /\ Count(i, Fetch("media")) = 1)
        => Count(i, Fetch("media")) + Count(j, Fetch("media")) = 1

(***************************************************************************)
(* C2. Once the file of (type, url) is in the cache, a repeated request    *)
(* issues no upstream fetch at all and answers with the success payload.   *)
(***************************************************************************)
C2_NoFetchOnceCached ==
    \A i, j \in Reqs :
        (After(i, j) /\ Answered(j) /\ rq[i] = rq[j] /\ ServesFile(i)
            /\ existsSync(files, resp[i].fileName))
        => (net[j] = <<>> /\ Succeeded(j))

(***************************************************************************)
(* C3. A failed or empty download leaves nothing that a later request      *)
(* takes for a cached file: a request that arrives after all others were   *)
(* answered and succeeds without downloading serves a completely written,  *)
(* non-empty file.                                                         *)
(***************************************************************************)
C3_NoLeftoverServed ==
    \A j \in Reqs :
        (Last(j) /\ ServesFile(j) /\ ~Fetched(j, "media"))
        => files[resp[j].fileName].bytes = "all"

(***************************************************************************)
(* C4. A request that meets a failure is answered with a JSON error and a  *)
(* failure status: not with a success payload, not with a redirect.        *)
(***************************************************************************)
C4_FailureIsJsonError ==
    \A i \in Reqs : (Answered(i) /\ MetFailure(i)) => JsonFailure(i)

(***************************************************************************)
(* C5. Validation failures are answered with 400: a missing url or type,   *)
(* an unsupported type, and a youtube url the URL validation rejects.      *)
(***************************************************************************)
YouTubeUrlRejected(h, p) ==
    /\ ParamsPresent(h, p)
    /\ p.type = "youtube"
    /\ IF h = "part_000" THEN extractYouTubeVideoId(p.url) = NULL
       ELSE ~ytdlValidateURL(p.url)

C5_ValidationIs400 ==
    \A i \in Reqs :
        (Answered(i) /\ net[i] = <<>>
            /\ \/ ~ParamsPresent(handler, rq[i])
               \/ rq[i].type \notin StoringTypes
               \/ YouTubeUrlRejected(handler, rq[i]))
        => (JsonFailure(i) /\ resp[i].status = 400)

(***************************************************************************)
(* C6. A facebook request whose page matches none of the extraction        *)
(* patterns fails with an error response and fetches no media URL.         *)
(***************************************************************************)
C6_FacebookNoMatchFails ==
    \A i \in Reqs :
        (Answered(i) /\ rq[i].type = "facebook" /\ Count(i, Fail("extract")) > 0)
        => (JsonFailure(i) /\ resp[i].status = 500 /\ ~Fetched(i, "media"))

(***************************************************************************)
(* C7. part_002: a facebook request that met no failure (its video URL was *)
(* extracted and the file downloaded or found in the cache) is answered    *)
(* with success = true, downloadUrl /downloads/facebook-<hash>.mp4 and     *)
(* contentType video/mp4.                                                  *)
(***************************************************************************)
C7_FacebookSuccessPayload ==
    \A i \in Reqs :
        (handler = "part_002" /\ Answered(i) /\ rq[i].type = "facebook"
            /\ Fetched(i, "page") /\ ~MetFailure(i))
        => /\ Succeeded(i)
           /\ resp[i].downloadUrl = "/downloads/facebook-" \o createUrlHash(rq[i].url) \o ".mp4"
           /\ resp[i].contentType = "video/mp4"

(***************************************************************************)
(* C8. Instagram meta-tag fallback: for a post or a profile, a page with   *)
(* neither a _sharedData block nor a JSON-LD block but with an og:image    *)
(* meta tag resolves to the URL of that tag.                               *)
(***************************************************************************)
C8_MetaTagFallback ==
    (/\ igOut # NotRun
     /\ igType \in {"post", "profile"}
     /\ igPage.fetch = "ok" /\ igPage.shared = "none" /\ igPage.ld = "none"
     /\ igPage.ogImage)
    => igOut.url = OG_IMAGE

(***************************************************************************)
(* C9. In the revisions with a JSON-LD step, a _sharedData step that       *)
(* throws on parsing, or that yields no URL, is followed by the JSON-LD    *)
(* step: no result is returned before both steps were run.                 *)
(***************************************************************************)
C9_ChainContinues ==
    (/\ igOut # NotRun
     /\ handler \in {"route", "part_000"}
     /\ igPage.fetch = "ok"
     /\ LET s1 == IgSharedDataStep(igPage, igType)
        IN  s1.kind # "return" \/ Falsy(s1.val))
    => igOut.steps = <<"sharedData", "jsonLd">>

(***************************************************************************)
(* C10. media_url is optional: an instagram request that supplies it never *)
(* fetches the page at url, and one that omits it is not rejected but      *)
(* resolved through the page.                                              *)
(***************************************************************************)
C10_MediaUrlOptional ==
    \A i \in Reqs :
        (Answered(i) /\ rq[i].type \in IgTypes /\ ParamsPresent(handler, rq[i])
            /\ ~MetFailure(i))
        => /\ ~Falsy(rq[i].media_url) => ~Fetched(i, "page")
           /\ Falsy(rq[i].media_url) => (resp[i].status # 400 /\ Fetched(i, "page"))

(***************************************************************************)
(* C11. Format selection without a matching requested quality: the         *)
(* selected variant has the greatest resolution number among the variants  *)
(* that carry video; among the variants tied at that resolution one with   *)
(* audio is selected whenever one exists; among those still tied one with  *)
(* an explicit container is selected whenever one exists.                  *)
(***************************************************************************)
Selection == ytOut # NotSelected /\ ytOut.ok
CarriesAudio(f) == ~Falsy(AudioValue(f))
VideoVariants == {ytFormats[k] : k \in {j \in 1..Len(ytFormats) : IsVideoFormat(ytFormats[j])}}
RequestMatches ==
    /\ ~Falsy(ytQuality)
    /\ \E f \in VideoVariants : f.itag = ParseInt(ytQuality)
TopResolution == {f \in VideoVariants : \A g \in VideoVariants : getQualityNumber(g) <= getQualityNumber(f)}
TopWithAudio ==
    IF \E f \in TopResolution : CarriesAudio(f)
    THEN {f \in TopResolution : CarriesAudio(f)} ELSE TopResolution
TopWithContainer ==
    IF \E f \in TopWithAudio : f.container # ""
    THEN {f \in TopWithAudio : f.container # ""} ELSE TopWithAudio

C11_BestFormatSelected ==
    (Selection /\ ~RequestMatches) => ytOut.format \in TopWithContainer

(***************************************************************************)
(* C12. Quality request: a supplied quality equal to the tag of an         *)
(* available video variant selects exactly that variant; with no quality,  *)
(* or one that matches no variant, the selected variant is the first of    *)
(* the revision's sorted order, not a variant picked by some other tag.    *)
(***************************************************************************)
Survives(h, f) == IF h = "route" THEN IsVideoFormat(f) ELSE IsVideoAndAudio(f)
Survivors == SelectSeq(ytFormats, LAMBDA f : Survives(handler, f))
BestAvailable == {sorted[1] : sorted \in SortOutcomes(Survivors, ComparatorTable(handler, Survivors))}

C12_QualityRequest ==
    ytOut # NotSelected =>
        IF RequestMatches
        THEN ytOut.ok /\ ytOut.format.itag = ParseInt(ytQuality)
        ELSE ytOut.ok => ytOut.format \in BestAvailable

(***************************************************************************)
(* C13. When no variant of the metadata survives the video filter, the     *)
(* youtube request is answered with the error 'No suitable format found',  *)
(* no media download is started and no cache file is created.              *)
(***************************************************************************)
NoFormatSurvived(i) ==
    Answered(i) /\ rq[i].type = "youtube" /\ Count(i, Fail("format")) > 0
Alone(i) == \A k \in Reqs : k # i => pc[k] = "idle"

C13_NoFormatAvailable ==
    \A i \in Reqs :
        NoFormatSurvived(i)
        => /\ JsonFailure(i)
           /\ resp[i] = YtError(handler, NO_FORMAT)
           /\ ~Fetched(i, "media")
           /\ Alone(i) => files = EmptyDir

(***************************************************************************)
(* C14. Every success payload carries a contentType of the whitelist:      *)
(* video/mp4 or image/jpeg.                                                *)
(***************************************************************************)
ContentTypeWhitelist == {"video/mp4", "image/jpeg"}

C14_ContentTypeWhitelist ==
    \A i \in Reqs : Succeeded(i) => resp[i].contentType \in ContentTypeWhitelist

(***************************************************************************)
(* C15. downloadContent, for a non-empty url that includes none of         *)
(* youtube.com, youtu.be, instagram.com, facebook.com, fb.com, returns the *)
(* Unsupported failure without a downloadUrl and invokes no platform       *)
(* handler; a url that includes one of them is never reported unsupported. *)
(***************************************************************************)
Classified == dcOut # NoOutcome /\ ~dcUrl.empty
OnPlatform == dcUrl.includes \cap PlatformMarkers # {}

C15_UnsupportedClassification ==
    Classified =>
        IF OnPlatform THEN dcOut.message # UNSUPPORTED_URL
        ELSE /\ ~dcOut.success
             /\ dcOut.message = UNSUPPORTED_URL
             /\ dcOut.proxyType = ""
             /\ dcOut.called = ""

C15_Witness ==
    /\ Classified
    /\ ~OnPlatform
    /\ "/p/" \in dcUrl.includes
    /\ dcOut.message = UNSUPPORTED_URL

(***************************************************************************)
(* C16. For a url classified as YouTube, downloadContent succeeds with a   *)
(* downloadUrl of type youtube exactly when the captured video id has 11   *)
(* characters; for any other length, or no capture, it returns the         *)
(* invalid-YouTube-URL failure without a downloadUrl.                      *)
(***************************************************************************)
OnYouTube == "youtube.com" \in dcUrl.includes \/ "youtu.be" \in dcUrl.includes

C16_ElevenCharacterId ==
    (Classified /\ OnYouTube) =>
        IF dcUrl.capture = 11
        THEN dcOut.success /\ dcOut.proxyType = "youtube"
        ELSE /\ ~dcOut.success
             /\ dcOut.message = "Invalid YouTube URL"
             /\ dcOut.proxyType = ""

C16_Witness ==
    /\ Classified
    /\ OnYouTube
    /\ dcUrl.capture = 11
    /\ dcOut.success
    /\ dcOut.proxyType = "youtube"

(***************************************************************************)
(* C17. No mutual exclusion between the existence check and the write:     *)
(* while a request is being handled and its file is not yet in the         *)
(* directory, a second request for the same url and type is admitted and   *)
(* passes the existence check as well; the state in which both have        *)
(* fetched the media and write the same path is reachable (C17_Witness).   *)
(***************************************************************************)
InFlight(i) == pc[i] \notin {"idle", "done"}
NextToArrive(i) == pc[i] = "idle" /\ \A k \in Reqs : k < i => pc[k] # "idle"
\* the case blocks that look for the file before they download
ChecksCache(h, type) ==
    \/ h = "part_000" /\ type \in {"reel", "post", "profile", "facebook"}
    \/ h \in {"part_001", "part_002"} /\ type = "youtube"
    \/ h = "part_002" /\ type = "facebook"
Writing(i) == pc[i] \in {"write_file", "yt_stream"}

C17_NoMutualExclusion ==
    \A i, j \in Reqs :
        (NextToArrive(i) /\ InFlight(j) /\ ~existsSync(files, loc[j].fileName))
        => ENABLED (Start(i) /\ rq'[i] = rq[j] /\ pc'[i] \notin {"idle", "done"})

C17_Witness ==
    \E i, j \in Reqs :
        /\ i # j
        /\ rq[i].url = rq[j].url /\ rq[i].type = rq[j].type
        /\ ChecksCache(handler, rq[i].type)
        /\ Writing(i) /\ Writing(j)
        /\ Fetched(i, "media") /\ Fetched(j, "media")
        /\ loc[i].fileName = loc[j].fileName
        /\ existsSync(files, loc[i].fileName)

(***************************************************************************)
(* C18. The cache slot is a function of the url and the type alone: two    *)
(* requests with the same url and the same type address the same file of   *)
(* public/downloads, whatever the upstream answers and whatever quality    *)
(* or media_url they carry.                                                *)
(***************************************************************************)
\* the file a request addresses: the fileName of its case block
Slot(i) == IF Answered(i) THEN resp[i].fileName ELSE loc[i].fileName
StoresFile(i) == Slot(i) # "" /\ ~(Answered(i) /\ resp[i].isExternal)

C18_SlotOfUrlAndType ==
    \A i, j \in Reqs :
        (rq[i].url = rq[j].url /\ rq[i].type = rq[j].type /\ StoresFile(i) /\ StoresFile(j))
        => Slot(i) = Slot(j)

(***************************************************************************)
(* C19. No retries: within one request each upstream resource is fetched   *)
(* at most once; after a fetch has failed the request issues no further    *)
(* fetch and is answered with a failure response.                          *)
(***************************************************************************)
Upstream == {"meta", "page", "media", "home", "oembed"}
FetchFailedAt(i, k) == net[i][k].ev = "fail" /\ net[i][k].res \in Upstream
FetchFailed(i) == \E k \in 1..Len(net[i]) : FetchFailedAt(i, k)

C19_NoRetries ==
    \A i \in Reqs :
        /\ \A res \in Upstream : Count(i, Fetch(res)) <= 1
        /\ \A k \in 1..Len(net[i]) :
            FetchFailedAt(i, k) => \A n \in (k + 1)..Len(net[i]) : net[i][n].ev # "fetch"
        /\ (Answered(i) /\ FetchFailed(i)) => JsonFailure(i)

(***************************************************************************)
(* C20. Facebook extraction tries its patterns in the order HD playable    *)
(* URL, generic playable URL, native HD URL, native SD URL, legacy HD      *)
(* source, legacy SD source, structured video-content URL, and stops at    *)
(* the first match: the resolved URL is that of the earliest pattern of    *)
(* this order that matches the page.                                       *)
(***************************************************************************)
C20_PatternOrder ==
    LET \* the markers each pattern of the stated order stands for
        order == << {"playable_url_quality_hd"}, {"playable_url", "PLAYABLE_URL"},
                    {"browser_native_hd_url"}, {"browser_native_sd_url"},
                    {"hd_src", "HD_SRC", "q_hd_src"}, {"sd_src", "SD_SRC", "q_sd_src"},
                    {"contentUrl"} >>
        \* the markers of the k-th pattern that the revision matches in the page
        matchesAt(k) == order[k] \cap fbPage.feats \cap FbPatterns(handler)
        matching == {k \in 1..Len(order) : matchesAt(k) # {}}
        first == CHOOSE k \in matching : \A n \in matching : k <= n
    IN  (fbOut # "not run" /\ fbPage.fetch = "ok" /\ matching # {})
        => \E m \in matchesAt(first) : fbOut \in {FbRaw(m), FbUrl(m)}

(***************************************************************************)
(* C21. Facebook cookie priming is best-effort in part_002: when the       *)
(* home-page request brings no cookie, or fails, the handler still fetches *)
(* the video page; priming never by itself makes the request fail.         *)
(***************************************************************************)
C21_PrimingBestEffort ==
    handler = "part_002" =>
        \A i \in Reqs : (Answered(i) /\ Fetched(i, "home")) => Fetched(i, "page")

(***************************************************************************)
(* C22. When the YouTube media stream emits an error mid-transfer, that    *)
(* request is answered with an error response, never with a success        *)
(* payload that points at the partially written file.                      *)
(***************************************************************************)
StreamFailed(i) ==
    rq[i].type = "youtube" /\ \E k \in 1..Len(net[i]) : net[i][k] = Fail("media")

C22_StreamErrorAborts ==
    \A i \in Reqs : StreamFailed(i) => (JsonFailure(i) /\ resp[i].downloadUrl = "")

\* a stream failed after part of the file was written
C22_Witness ==
    \E i \in Reqs :
        /\ StreamFailed(i) /\ Answered(i)
        /\ existsSync(files, live[i].file)
        /\ files[live[i].file].bytes = "part"

(***************************************************************************)
(* C23. All work of a request happens before its response: an answered     *)
(* request reads nothing more from upstream, and both ends of the pipe of  *)
(* its youtube download are stopped.                                       *)
(***************************************************************************)
Stopped(i) == live[i].state \in {"none", "closed"}
ReadLate(i) == \E k \in 1..Len(net[i]) : net[i][k] = Read("media")

C23_WorkWithinLifetime ==
    \A i \in Reqs : Answered(i) => (Stopped(i) /\ ~ReadLate(i))

(***************************************************************************)
(* C24. A success payload is returned only for a completely written file:  *)
(* when a request answers with success, no other request is writing the    *)
(* file it points at, and a file it did not download itself is complete.   *)
(***************************************************************************)
C24_SuccessOnlyForCompleteFile ==
    [][\A i \in Reqs :
        (~Answered(i) /\ Answered(i)' /\ ServesFile(i)')
        => /\ \A j \in Reqs \ {i} :
                ~(Writing(j)' /\ loc'[j].fileName = resp'[i].fileName)
           /\ ~Fetched(i, "media")' => files'[resp'[i].fileName].bytes = "all"]_vars

(***************************************************************************)
(* C25. The content stored at the cache path of (type, url) is determined  *)
(* by url: a request with another media_url never replaces a completely    *)
(* stored file with bytes from its own source.                             *)
(***************************************************************************)
C25_ContentDeterminedByUrl ==
    [][\A fn \in DOMAIN files : \A j \in Reqs :
        (files[fn].bytes = "all" /\ ~Falsy(rq[j].media_url)
            /\ files'[fn].src = rq[j].media_url)
        => files[fn].src = rq[j].media_url]_vars

(***************************************************************************)
(* C26. In the youtube path of part_001 and part_002 a cache hit answers   *)
(* as the request that populated the cache did: two successful requests    *)
(* for the same url carry the same downloadUrl, fileName, contentType,     *)
(* title and thumbnail.                                                    *)
(***************************************************************************)
Payload(r) == <<r.downloadUrl, r.fileName, r.contentType, r.title, r.thumbnail>>

C26_CacheHitEqualsPopulating ==
    handler \in {"part_001", "part_002"} =>
        \A i, j \in Reqs :
            (Succeeded(i) /\ Succeeded(j) /\ rq[i].type = "youtube"
                /\ rq[j].type = "youtube" /\ rq[i].url = rq[j].url)
            => Payload(resp[i]) = Payload(resp[j])

(***************************************************************************)
(* C27. Classifier and proxy agree: the downloadUrl of every successful    *)
(* downloadContent call carries the parameters that the GET handler of     *)
(* route.ts requires, so the handler never answers it with status 400.     *)
(***************************************************************************)
C27_ClassifierAndProxyAgree ==
    (Classified /\ dcOut.success)
    => Entry("route", ProxyRequest(dcUrl, dcOut), TRUE, EmptyDir).resp.status # 400

(***************************************************************************)
(* C28. A request that is rejected with status 400, or that fails because  *)
(* extraction found no media URL, performs no media fetch and leaves the   *)
(* cached files as they were.                                              *)
(***************************************************************************)
ExtractionFailed(i) == \E k \in 1..Len(net[i]) : net[i][k] = Fail("extract")

C28_RejectionHasNoEffect ==
    [][\A i \in Reqs :
        (~Answered(i) /\ Answered(i)' /\ (resp'[i].status = 400 \/ ExtractionFailed(i)'))
        => (~Fetched(i, "media")' /\ files' = files)]_vars

(***************************************************************************)
(* C29. Every request that arrived is eventually answered, and answered    *)
(* once, provided every fetch, media stream and file write it starts       *)
(* completes or errors: the promise of the youtube download is always      *)
(* settled.                                                                *)
(***************************************************************************)
C29_EveryRequestAnswered ==
    /\ \A i \in Reqs : (pc[i] # "idle") ~> Answered(i)
    /\ [][\A i \in Reqs : Answered(i) => (Answered(i)' /\ resp'[i] = resp[i])]_vars

\* a download promise resolved on finish and another one rejected
C29_Witness ==
    \E i, j \in Reqs :
        /\ Succeeded(i) /\ live[i].state = "closed"
        /\ JsonFailure(j) /\ live[j].state # "none"

(***************************************************************************)
(* C30. The comparator that sorts the YouTube variants in route.ts is a    *)
(* consistent ordering: compare(a, b) < 0 implies compare(b, a) > 0 and    *)
(* compare(a, b) = 0 implies compare(b, a) = 0, however audio presence is  *)
(* signalled.                                                              *)
(***************************************************************************)
C30_ConsistentComparator ==
    (handler = "route" /\ ytOut # NotSelected)
    => \A m, n \in 1..Len(ytFormats) :
        LET a == ytFormats[m]
            b == ytFormats[n]
        IN  /\ compareFormats(a, b) < 0 => compareFormats(b, a) > 0
            /\ compareFormats(a, b) = 0 => compareFormats(b, a) = 0

=============================================================================
